---- MODULE Spec2Model ----
(***************************************************************************)
(* A model of bloucobot.py, a meeting logger for the Sopel IRC bot.        *)
(*                                                                         *)
(* The state is the module's globals (meetings_dict, meeting_vraus,        *)
(* meeting_log_path, meeting_log_baseurl), the bot's configuration, the    *)
(* file system under the log path, the clock, and the outcome of the last  *)
(* dispatched command (what the bot said, what the handler raised).        *)
(* There is one action per command handler; Sopel dispatches handlers one  *)
(* at a time, so every handler is one atomic step.                         *)
(***************************************************************************)
EXTENDS Integers, Sequences, FiniteSets, TLC

\* ------------------------------------------------------------------ bounds
\* The largest values of the scopes explored (see Scopes).
\* Meetings that may be started.
MaxMeetings == 2
\* Lines the commands may add to the plain logs between the opening and the
\* closing lines, over all meetings.
MaxItems == 2
\* Pending side notes (ows) of one record.
MaxOws == 1
\* Last value of the clock (minutes).
MaxTime == 1
\* Operations the file system and the network may refuse.
MaxFaults == 1

\* ------------------------------------------------------------------ inputs
Channels == {"#a", "#b"}
\* Nicks as IRC delivers them (trigger.nick), of mixed case.
Nicks == {"Ana", "bob", "eve"}
\* trigger.sender: the channel of a channel message, the nick of a private one.
Senders == Channels \cup Nicks
\* trigger.group(2) of the recording commands, as sequences of characters;
\* <<>> stands for no argument.
Texts == {<<>>, <<"x">>}
\* Titles are sequences of characters; <<>> stands for no argument.
Titles == {<<>>, <<"r", "!">>}
\* Arguments of puxam, as the tokens between single spaces (<<>>: no argument).
PuxamArgs == {<<"Bob", "X">>}
\* Arguments of ow, as the tokens between spaces.
OwArgs == {<<>>, <<"c">>, <<"#a", "c">>}
\* trigger.group(2) of blz, seliga and missao.
Notes == {<<"x">>}
\* trigger.group(2) of link.
Links == {<<"e.com">>, <<"http://", "e.com">>}
\* What find_title does for a link: it raises ("FAIL") or returns the title.
Found(link) == IF Head(link) = "http://" THEN {"T"} ELSE {"FAIL"}
\* The configured values of meeting_log_path and meeting_log_baseurl.
Configs == {[path |-> <<"w">>, baseurl |-> <<"u">>],
            [path |-> <<"v", "/">>, baseurl |-> <<"t", "/">>]}

\* str.lower() on the names of the model.
Lower(s) ==
    CASE s = "Ana" -> "ana"
      [] s = "Bob" -> "bob"
      [] s = "X" -> "x"
      [] OTHER -> s

\* ------------------------------------------------------------ meeting record
UNTITLED_MEETING == <<"A", "n", "o", "n", "i", "m", "o">>

Keys == {"start", "title", "head", "running", "ows", "puxam", "current_missao"}

\* A per-channel record. kind tells the plain dict the outer defaultdict
\* makes from the collections.defaultdict(dict) a reset leaves; has[k] is
\* "no" (key absent), "val" (key holds the field's value) or "empty" (key
\* holds the {} a defaultdict makes on a read of a missing key).
NoKeys == [k \in Keys |-> "no"]

BlankFields(kind) ==
    [kind |-> kind, has |-> NoKeys, start |-> 0, title |-> <<>>, head |-> "",
     ows |-> <<>>, puxam |-> <<>>, current_missao |-> ""]

EmptyDict == BlankFields("dict")

\* collections.defaultdict(dict), what a reset stores for the channel.
ResetRecord == BlankFields("defaultdict")

\* rec[k] raises KeyError: a plain dict without the key.
KeyErr(rec, k) == rec.kind = "dict" /\ rec.has[k] = "no"

\* The record after rec[k] was read: a defaultdict stores {} for a missing key.
Read(rec, k) ==
    IF rec.kind = "defaultdict" /\ rec.has[k] = "no"
    THEN [rec EXCEPT !.has[k] = "empty"]
    ELSE rec

\* meetings_dict after meetings_dict[ch][k] was read.
ReadKey(md, ch, k) == [md EXCEPT ![ch] = Read(@, k)]

\* A faulty variant of is_meeting_running: the lookup uses a key the records
\* never hold: a plain record raises KeyError, a defaultdict yields {}.
is_meeting_running_wrong_key(md, ch) ==
    IF md[ch].kind = "dict" THEN "False" ELSE "{}"

\* What is_meeting_running returns: "True", "False" (the KeyError branch) or
\* "{}" (the value a defaultdict record yields for the missing key).
is_meeting_running(md, ch) ==
    IF md[ch].has["running"] = "val" THEN "True"
    ELSE IF KeyErr(md[ch], "running") THEN "False"
    ELSE "{}"

\* Python truth of what is_meeting_running returns.
Truthy(v) == v = "True"

Range(seq) == {seq[i] : i \in 1..Len(seq)}

\* A faulty variant of is_chair: the nick is compared as it was typed,
\* without nick.lower().
is_chair_exact(nick, md, ch) ==
    LET rec == md[ch] IN
    IF KeyErr(rec, "head") THEN FALSE
    ELSE IF rec.has["head"] = "val" /\ nick = rec.head THEN TRUE
    ELSE IF KeyErr(rec, "puxam") THEN FALSE
    ELSE rec.has["puxam"] = "val" /\ nick \in Range(rec.puxam)

\* A faulty variant of lines 181-188: the head or the puxam of any channel.
is_chair_anywhere(nick, md, ch) ==
    \E c \in DOMAIN md :
       LET rec == md[c] IN
       \/ rec.has["head"] = "val" /\ Lower(nick) = rec.head
       \/ rec.has["puxam"] = "val" /\ Lower(nick) \in Range(rec.puxam)

\* is_chair(nick, channel); the KeyError of either lookup yields False.
is_chair(nick, md, ch) ==
    LET rec == md[ch] IN
    IF KeyErr(rec, "head") THEN FALSE
    ELSE IF rec.has["head"] = "val" /\ Lower(nick) = rec.head THEN TRUE
    ELSE IF KeyErr(rec, "puxam") THEN FALSE
    ELSE rec.has["puxam"] = "val" /\ Lower(nick) \in Range(rec.puxam)

\* meetings_dict after is_chair made its lookups ("or" reads puxam only
\* when the head comparison is false).
ChairRead(nick, md, ch) ==
    LET rec == md[ch] IN
    IF KeyErr(rec, "head") THEN md
    ELSE IF rec.has["head"] = "val" /\ Lower(nick) = rec.head
         THEN md
         ELSE ReadKey(ReadKey(md, ch, "head"), ch, "puxam")

\* ------------------------------------------------------------- log file names
\* Characters of string.punctuation + string.whitespace that the inputs use.
PunctuationWhitespace == {"!", "-", " ", "#", "/", ":"}

\* name.replace(character, "-") for every such character.
ReplaceAll(name) ==
    [i \in 1..Len(name) |->
        IF name[i] \in PunctuationWhitespace THEN "-" ELSE name[i]]

RECURSIVE LStrip(_)
LStrip(name) ==
    IF name # <<>> /\ Head(name) = "-" THEN LStrip(Tail(name)) ELSE name

RECURSIVE RStrip(_)
RStrip(name) ==
    IF name # <<>> /\ name[Len(name)] = "-"
    THEN RStrip(SubSeq(name, 1, Len(name) - 1))
    ELSE name

\* name.strip("-")
Strip(name) == RStrip(LStrip(name))

\* figure_logfile_name: timestring + "_" + name; the time string is the
\* start time, to the minute.
figure_logfile_name(rec) ==
    LET name == IF rec.title = UNTITLED_MEETING
                THEN <<"u", "n", "t", "i", "t", "l", "e", "d">>
                ELSE rec.title
    IN <<ToString(rec.start), "_">> \o Strip(ReplaceAll(name))

\* figure_logfile_name needs the title and the start time of the record.
NameOK(rec) == rec.has["title"] = "val" /\ rec.has["start"] = "val"

\* -------------------------------------------------------------------- state
VARIABLES
    meetings_dict,        \* sender -> per-channel record
    meeting_vraus,        \* channel -> list of vraus, for the channels that have one
    meeting_log_path,     \* global, set by vemblouco
    meeting_log_baseurl,  \* global, set by vemblouco
    config,               \* bot.config.bloucobot
    dirs,                 \* the channel log directories that exist
    files,                \* log file -> the entries appended to it
    now,                  \* the clock, in minutes
    said,                 \* what the bot said while handling the last command
    raised,               \* the exception the handler let through, or "none"
    faults,               \* the operations refused so far
    meetings,             \* the meetings started so far
    scope                 \* how far this behaviour is explored (see Scopes)

vars == <<meetings_dict, meeting_vraus, meeting_log_path, meeting_log_baseurl,
          config, dirs, files, now, said, raised, faults, meetings, scope>>

\* The behaviours explored: each scope bounds the meetings started, the
\* operations refused, the lines logged between the opening and the closing
\* ones, the side notes kept at a time, and the minutes that pass.
Scopes ==
    { [meetings |-> MaxMeetings, faults |-> MaxFaults, items |-> 0,
       ows |-> 0, time |-> MaxTime],
      [meetings |-> 1, faults |-> MaxFaults, items |-> 1,
       ows |-> MaxOws, time |-> 0],
      [meetings |-> 1, faults |-> 0, items |-> MaxItems,
       ows |-> MaxOws, time |-> MaxTime],
      [meetings |-> MaxMeetings, faults |-> 0, items |-> 1,
       ows |-> 0, time |-> 0] }

\* --------------------------------------------------------------- the loggers
\* A path or URL made to end with its separator (lines 217-218, 222-223).
WithSep(p) == IF p # <<>> /\ p[Len(p)] = "/" THEN p ELSE Append(p, "/")

\* tools.web.quote on one token: "#" is percent-encoded.
Quote(tok) ==
    CASE tok = "#a" -> "%23a"
      [] tok = "#b" -> "%23b"
      [] tok = "!" -> "%21"
      [] OTHER -> tok

\* meeting_log_path + channel
LogDir(path, ch) == [path |-> path, channel |-> ch]

\* os.path.join(meeting_log_path + channel, figure_logfile_name(channel) + ext)
LogFile(path, rec, ch, ext) ==
    [dir |-> LogDir(path, ch), name |-> figure_logfile_name(rec), ext |-> ext]

\* baseurl + quote(channel + "/" + figure_logfile_name(channel) + ext)
LogUrl(baseurl, rec, ch, ext) ==
    baseurl \o <<Quote(ch), "/">>
            \o [i \in 1..Len(figure_logfile_name(rec)) |->
                    Quote(figure_logfile_name(rec)[i])]
            \o <<ext>>

\* codecs.open(f, "a") succeeds when the directory exists and the record
\* yields a file name; the file system may refuse it besides (envfail).
CanOpen(ds, path, rec, ch, envfail) ==
    ~envfail /\ LogDir(path, ch) \in ds /\ NameOK(rec)

\* The step meets the failure asked for (asked) when its handler comes to
\* the operation that fails (hit), and only while the budget lasts.
Fault(asked, hit) ==
    /\ asked => hit
    /\ hit => faults < scope.faults
    /\ faults' = IF hit THEN faults + 1 ELSE faults

\* Appending to a file opened in mode "a" (created when missing).
AppendTo(fs, f, entries) ==
    IF f \in DOMAIN fs
    THEN [fs EXCEPT ![f] = @ \o entries]
    ELSE (f :> entries) @@ fs

\* One entry of an HTML log.
Html(tag, text) == [tag |-> tag, text |-> text]

log_html_start(fs, path, rec, ch) ==
    AppendTo(fs, LogFile(path, rec, ch, ".html"),
        << Html("<title><h1>",
                rec.title \o <<" at ", ch, ", ", ToString(rec.start)>>),
           Html("<h4>Meeting started by</h4><ul>", <<rec.head>>) >>)

log_html_listitem(fs, path, rec, ch, item) ==
    AppendTo(fs, LogFile(path, rec, ch, ".html"), << Html("<li>", item) >>)

log_html_end(fs, path, baseurl, rec, ch, t) ==
    AppendTo(fs, LogFile(path, rec, ch, ".html"),
        << Html("</ul><h4>Meeting ended at</h4>", <<ToString(t)>>),
           Html("<a>Full log</a>", LogUrl(baseurl, rec, ch, ".txt")),
           Html("</body></html>", <<>>) >>)

\* One line of the plain log, without its [HH:MM:SS] prefix.
log_plain(fs, path, rec, ch, item) ==
    AppendTo(fs, LogFile(path, rec, ch, ".txt"), << [item |-> item] >>)

OpenLine == "Blouco trazido pela Porta-estandarte "
CloseLine == "O Blouco saiu as "

\* The plain-log lines that are neither the opening nor the closing line.
RECURSIVE SumItems(_, _)
SumItems(fs, keys) ==
    IF keys = {} THEN 0
    ELSE LET k == CHOOSE x \in keys : TRUE
         IN (IF k.ext = ".txt"
             THEN Cardinality({i \in 1..Len(fs[k]) :
                                 fs[k][i].item[1] \notin {OpenLine, CloseLine}})
             ELSE 0)
            + SumItems(fs, keys \ {k})

\* The log files stay within the bound of the model.
InBounds(fs) == SumItems(fs, DOMAIN fs) <= scope.items

\* ------------------------------------------------------------------ replies
Say(text, arg) == [text |-> text, arg |-> arg, to |-> ""]
SayTo(text, arg, to) == [text |-> text, arg |-> arg, to |-> to]

\* ------------------------------------------------------------------- Init
Init ==
    /\ meetings_dict = [s \in Senders |-> EmptyDict]
    /\ meeting_vraus = <<>>
    /\ meeting_log_path = <<>>
    /\ meeting_log_baseurl = <<>>
    /\ config = [path |-> <<"w">>, baseurl |-> <<"u">>]
    /\ dirs = {}
    /\ files = <<>>
    /\ now = 0
    /\ said = <<>>
    /\ raised = "none"
    /\ faults = 0
    /\ meetings = 0
    /\ scope \in Scopes

\* ------------------------------------------------------------- environment
\* Time passes. The model lets it pass during meetings only: between two
\* meetings it changes nothing but the name of the next log file, which a
\* minute passed during the meeting before changes as well.
Tick ==
    /\ now < scope.time
    /\ \E c \in Channels : Truthy(is_meeting_running(meetings_dict, c))
    /\ now' = now + 1
    /\ said' = <<>>
    /\ raised' = "none"
    /\ UNCHANGED <<meetings_dict, meeting_vraus, meeting_log_path,
                   meeting_log_baseurl, config, dirs, files, faults, meetings,
                   scope>>

\* The operator changes the bot's configuration.
Configure(c) ==
    /\ config # c
    /\ config' = c
    /\ said' = <<>>
    /\ raised' = "none"
    /\ UNCHANGED <<meetings_dict, meeting_vraus, meeting_log_path,
                   meeting_log_baseurl, dirs, files, now, faults, meetings,
                   scope>>

\* ---------------------------------------------------------------- vemblouco
\* A faulty variant of line 210: the head is stored as typed.
StartRecordAsTyped(rec, t, arg, nick) ==
    [rec EXCEPT
        !.has = [k \in Keys |->
                    IF k \in {"start", "title", "head", "running", "ows"}
                    THEN "val" ELSE @[k]],
        !.start = t,
        !.title = IF arg = <<>> THEN UNTITLED_MEETING ELSE arg,
        !.head = nick,
        !.ows = <<>>]

\* Lines 205-212: the record of the meeting being started.
StartRecord(rec, t, arg, nick) ==
    [rec EXCEPT
        !.has = [k \in Keys |->
                    IF k \in {"start", "title", "head", "running", "ows"}
                    THEN "val" ELSE @[k]],
        !.start = t,
        !.title = IF arg = <<>> THEN UNTITLED_MEETING ELSE arg,
        !.head = Lower(nick),
        !.ows = <<>>]

\* A faulty variant of line 233: the record is left as lines 205-212 made it.
MakedirsKept(rec) == rec

\* Line 233: the record after os.makedirs failed.
MakedirsFailed(rec) == ResetRecord

VemFails == {"none", "makedirs", "log_plain", "log_html_start"}

vemblouco(sender, nick, arg, fail) ==
    LET running == Truthy(is_meeting_running(meetings_dict, sender))
        md0 == ReadKey(meetings_dict, sender, "running")
        started == [md0 EXCEPT ![sender] = StartRecord(@, now, arg, nick)]
        path == WithSep(config.path)
        baseurl == WithSep(config.baseurl)
        dir == LogDir(path, sender)
        mk_raises == dir \notin dirs /\ fail = "makedirs"
        dirs1 == dirs \cup {dir}
        plain_ok == ~mk_raises
                    /\ CanOpen(dirs1, path, started[sender], sender,
                               fail = "log_plain")
        fs1 == IF plain_ok
               THEN log_plain(files, path, started[sender], sender,
                              <<OpenLine, Lower(nick)>>)
               ELSE files
        html_ok == plain_ok
                   /\ CanOpen(dirs1, path, started[sender], sender,
                              fail = "log_html_start")
        fs2 == IF html_ok
               THEN log_html_start(fs1, path, started[sender], sender)
               ELSE fs1
    IN
    /\ Fault(fail # "none",
             sender \in Channels /\ ~running
             /\ (mk_raises \/ fail = "log_plain"
                 \/ (fail = "log_html_start" /\ plain_ok)))
    /\ IF sender \notin Channels
       THEN \* require_chanmsg
            /\ said' = << Say("Meetings can only be started in channels", <<>>) >>
            /\ raised' = "none"
            /\ UNCHANGED <<meetings_dict, meeting_vraus, meeting_log_path,
                           meeting_log_baseurl, dirs, files>>
       ELSE IF running
       THEN /\ said' = << Say("Ja tem um Blouco ativo!", <<>>) >>
            /\ raised' = "none"
            /\ meetings_dict' = md0
            /\ UNCHANGED <<meeting_vraus, meeting_log_path,
                           meeting_log_baseurl, dirs, files>>
       ELSE /\ raised' = IF mk_raises THEN "OSError"
                         ELSE IF html_ok THEN "none" ELSE "IOError"
            /\ said' =
                  IF mk_raises
                  THEN << Say("Blouco nao veio: Nao consegui criar o diretorio de log para este canal", <<>>) >>
                  ELSE IF html_ok
                  THEN << Say("O Blouco e aqui!", <<>>),
                          Say("Quem nao esta puxando pode participar me enviando uma DM com ow", <<sender>>) >>
                  ELSE <<>>
            /\ meeting_log_path' = path
            /\ meeting_log_baseurl' = baseurl
            /\ dirs' = IF mk_raises THEN dirs ELSE dirs1
            /\ meetings_dict' =
                  IF mk_raises
                  THEN [started EXCEPT ![sender] = MakedirsFailed(@)]
                  ELSE started
            /\ meeting_vraus' =
                  IF html_ok THEN (sender :> <<>>) @@ meeting_vraus
                  ELSE meeting_vraus
            /\ files' = fs2
    /\ meetings' = IF sender \in Channels /\ ~running
                    THEN meetings + 1 ELSE meetings
    /\ meetings' <= scope.meetings
    /\ UNCHANGED scope
    /\ UNCHANGED <<config, now>>

\* ------------------------------------------------------- the common checks
NoMeeting == "Nao tem Blouco aqui"
ChairsOnly == "Somente Porta-estandarte e Puxadoras podem fazer isso"
ChairsOnlyA == "Somente a Porta-estandarte e as Puxadoras podem fazer isso"

\* Where the three opening checks of a recording handler leave it:
\* "norun", "noarg", "noauth" or "ok".
Gate(md, sender, nick, arg) ==
    IF ~Truthy(is_meeting_running(md, sender)) THEN "norun"
    ELSE IF arg = <<>> THEN "noarg"
    ELSE IF ~is_chair(nick, md, sender) THEN "noauth"
    ELSE "ok"

\* meetings_dict after the lookups of those checks.
GateRead(md, sender, nick, arg) ==
    IF ~Truthy(is_meeting_running(md, sender))
    THEN ReadKey(md, sender, "running")
    ELSE IF arg = <<>> THEN md
    ELSE ChairRead(nick, md, sender)

\* The write of a recording handler that fails.
ItemFails == {"none", "log_plain", "log_html"}

\* The body shared by vrau, blz, link and seliga: one plain line, one HTML
\* list item, then (vrau only) the append to the channel's list, then the
\* reply. A missing list makes the append raise KeyError.
RecordItem(cmd, sender, nick, arg, usage, denied, plain, html, keep, reply, fail) ==
    LET gate == Gate(meetings_dict, sender, nick, arg)
        rec == meetings_dict[sender]
        plain_ok == CanOpen(dirs, meeting_log_path, rec, sender,
                            fail = "log_plain")
        fs1 == IF plain_ok
               THEN log_plain(files, meeting_log_path, rec, sender, plain)
               ELSE files
        html_ok == plain_ok /\ CanOpen(dirs, meeting_log_path, rec, sender,
                                       fail = "log_html")
        fs2 == IF html_ok
               THEN log_html_listitem(fs1, meeting_log_path, rec, sender, html)
               ELSE fs1
        nolist == keep /\ sender \notin DOMAIN meeting_vraus
    IN
    /\ Fault(fail # "none",
             gate = "ok"
             /\ (fail = "log_plain" \/ (fail = "log_html" /\ plain_ok)))
    /\ IF gate # "ok"
       THEN /\ said' = << Say(CASE gate = "norun" -> NoMeeting
                                [] gate = "noarg" -> usage
                                [] OTHER -> denied, <<>>) >>
            /\ raised' = "none"
            /\ UNCHANGED <<meeting_vraus, files>>
       ELSE /\ raised' = IF ~html_ok THEN "IOError"
                         ELSE IF nolist THEN "KeyError" ELSE "none"
            /\ said' = IF html_ok /\ ~nolist
                       THEN << Say(cmd, reply) >> ELSE <<>>
            /\ meeting_vraus' =
                  IF html_ok /\ keep /\ ~nolist
                  THEN [meeting_vraus EXCEPT ![sender] = Append(@, arg)]
                  ELSE meeting_vraus
            /\ InBounds(fs2)
            /\ files' = fs2
    /\ meetings_dict' = GateRead(meetings_dict, sender, nick, arg)
    /\ UNCHANGED <<meeting_log_path, meeting_log_baseurl, config, dirs, now,
                   meetings, scope>>

meetingvrau(sender, nick, arg, fail) ==
    RecordItem("vrau", sender, nick, arg,
               "Tente vrau Fulanin vai fazer tal coisa", ChairsOnlyA,
               <<"vrau: ">> \o arg, <<"<span>vrau: </span>">> \o arg,
               TRUE, arg, fail)

meetingblz(sender, nick, arg, fail) ==
    RecordItem("blz", sender, nick, arg,
               "Tente blz vai ser demais isso ai manda ver", ChairsOnlyA,
               <<"blz: ">> \o arg, <<"<span>blz: </span>">> \o arg,
               FALSE, arg, fail)

meetingseliga(sender, nick, arg, fail) ==
    RecordItem("seliga", sender, nick, arg,
               "Tente seliga alguma informacao relevante", ChairsOnlyA,
               <<"seliga: ">> \o arg, arg,
               FALSE, arg, fail)

\* link.startswith("http") decides the prefix; find_title returns title, or
\* raises (title = "FAIL" stands for that) and the title is "".
HasHttp(link) == link # <<>> /\ Head(link) = "http://"

FullLink(arg) == IF HasHttp(arg) THEN arg ELSE <<"http://">> \o arg

\* A faulty variant of lines 448-451: the failure of find_title gets through.
LinkTitleRaised(found) == found

LinkTitle(found) == IF found = "FAIL" THEN "" ELSE found

meetinglink(sender, nick, arg, found, fail) ==
    RecordItem("LINK", sender, nick, arg,
               "Tente link https://algum-website.exemplo/", ChairsOnlyA,
               <<"LINK: ">> \o FullLink(arg) \o <<" [", LinkTitle(found), "]">>,
               <<"<a href=">> \o FullLink(arg) \o <<">", LinkTitle(found), "</a>">>,
               FALSE, FullLink(arg), fail)

\* ----------------------------------------------------------------- listvraus
listvraus(sender, nick) ==
    LET running == Truthy(is_meeting_running(meetings_dict, sender))
        nolist == sender \notin DOMAIN meeting_vraus
    IN
    /\ meetings_dict' = ReadKey(meetings_dict, sender, "running")
    /\ said' = IF ~running THEN << Say(NoMeeting, <<>>) >>
               ELSE IF nolist \/ meeting_vraus[sender] = <<>> THEN <<>>
               ELSE [i \in 1..Len(meeting_vraus[sender]) |->
                        Say("vrau:", meeting_vraus[sender][i])]
    /\ raised' = IF running /\ nolist THEN "KeyError" ELSE "none"
    /\ UNCHANGED <<meeting_vraus, meeting_log_path, meeting_log_baseurl,
                   config, dirs, files, now, faults, meetings,
                   scope>>

\* -------------------------------------------------------------------- missao
\* The handler stores the topic, appends the HTML fragment itself, then
\* writes the plain line.
MissaoFails == {"none", "html", "log_plain"}

meetingmissao(sender, nick, arg, fail) ==
    LET gate == Gate(meetings_dict, sender, nick, arg)
        md0 == GateRead(meetings_dict, sender, nick, arg)
        md1 == [md0 EXCEPT ![sender].has["current_missao"] = "val",
                           ![sender].current_missao = arg]
        rec == md1[sender]
        html_ok == CanOpen(dirs, meeting_log_path, rec, sender, fail = "html")
        fs1 == IF html_ok
               THEN AppendTo(files, LogFile(meeting_log_path, rec, sender, ".html"),
                             << Html("</ul><h3>", arg), Html("</h3><ul>", <<>>) >>)
               ELSE files
        plain_ok == html_ok /\ CanOpen(dirs, meeting_log_path, rec, sender,
                                       fail = "log_plain")
        fs2 == IF plain_ok
               THEN log_plain(fs1, meeting_log_path, rec, sender,
                              <<"Missao atual: ">> \o arg
                                  \o <<" (trazida por ", nick, ")">>)
               ELSE fs1
    IN
    /\ Fault(fail # "none",
             gate = "ok"
             /\ (fail = "html" \/ (fail = "log_plain" /\ html_ok)))
    /\ IF gate # "ok"
       THEN /\ meetings_dict' = md0
            /\ said' = << Say(CASE gate = "norun" -> NoMeeting
                                [] gate = "noarg" -> "Qual a missao?"
                                [] OTHER -> ChairsOnly, <<>>) >>
            /\ raised' = "none"
            /\ UNCHANGED files
       ELSE /\ raised' = IF plain_ok THEN "none" ELSE "IOError"
            /\ said' = IF plain_ok THEN << Say("Missao atual:", arg) >> ELSE <<>>
            /\ meetings_dict' = md1
            /\ InBounds(fs2)
            /\ files' = fs2
    /\ UNCHANGED <<meeting_vraus, meeting_log_path, meeting_log_baseurl,
                   config, dirs, now, meetings,
                   scope>>

\* ----------------------------------------------------------------- vaiblouco
CloseFails == {"none", "log_html_end", "log_plain", "requests"}

\* A faulty variant of line 317: the puxam outlive the close.
ClosedRecordKeepsChairs(rec) ==
    [ResetRecord EXCEPT !.has["puxam"] = rec.has["puxam"], !.puxam = rec.puxam]

\* Line 317: the record the close leaves for the channel.
ClosedRecord(rec) == ResetRecord

\* Line 326: del meeting_vraus[channel].
DelVraus(mv, ch) ==
    IF DOMAIN mv \ {ch} = {} THEN <<>>
    ELSE [c \in DOMAIN mv \ {ch} |-> mv[c]]

vaiblouco(sender, nick, fail) ==
    LET running == Truthy(is_meeting_running(meetings_dict, sender))
        chair == is_chair(nick, meetings_dict, sender)
        md0 == IF running THEN ChairRead(nick, meetings_dict, sender)
               ELSE ReadKey(meetings_dict, sender, "running")
        rec == md0[sender]
        minutes == now - rec.start
        banner == Say("Blouco indo embora! Ele ficou minutos aqui",
                      <<ToString(minutes)>>)
        end_ok == CanOpen(dirs, meeting_log_path, rec, sender,
                          fail = "log_html_end")
        fs1 == IF end_ok
               THEN log_html_end(files, meeting_log_path, meeting_log_baseurl,
                                 rec, sender, now)
               ELSE files
        plain_ok == end_ok /\ CanOpen(dirs, meeting_log_path, rec, sender,
                                      fail = "log_plain")
        fs2 == IF plain_ok
               THEN log_plain(fs1, meeting_log_path, rec, sender,
                              <<CloseLine, nick, ". Tempo aqui: ",
                                ToString(minutes), " minutos">>)
               ELSE fs1
        urls == << Say("Registro principal: ",
                       LogUrl(meeting_log_baseurl, rec, sender, ".html")),
                   Say("Registro completo: ",
                       LogUrl(meeting_log_baseurl, rec, sender, ".txt")) >>
        get_ok == plain_ok /\ fail # "requests"
        nolist == sender \notin DOMAIN meeting_vraus
    IN
    /\ Fault(fail # "none",
             running /\ chair
             /\ (fail = "log_html_end" \/ (fail = "log_plain" /\ end_ok)
                 \/ (fail = "requests" /\ plain_ok)))
    /\ IF ~running \/ ~chair
       THEN /\ meetings_dict' = md0
            /\ said' = << Say(IF ~running THEN NoMeeting ELSE ChairsOnly, <<>>) >>
            /\ raised' = "none"
            /\ UNCHANGED <<meeting_vraus, files>>
       ELSE /\ raised' = IF ~plain_ok THEN "IOError"
                         ELSE IF ~get_ok THEN "RequestException"
                         ELSE IF nolist THEN "KeyError" ELSE "none"
            /\ meetings_dict' =
                  IF plain_ok
                  THEN [md0 EXCEPT ![sender] = ClosedRecord(@)]
                  ELSE md0
            /\ meeting_vraus' =
                  IF get_ok /\ ~nolist THEN DelVraus(meeting_vraus, sender)
                  ELSE meeting_vraus
            /\ said' = <<banner>>
                       \o (IF plain_ok THEN urls ELSE <<>>)
                       \o (IF get_ok THEN << Say("Segue o Blouco! ", <<"md5">>) >>
                           ELSE <<>>)
            /\ files' = fs2
    /\ UNCHANGED <<meeting_log_path, meeting_log_baseurl, config, dirs, now,
                   meetings, scope>>

\* --------------------------------------------------------------------- puxam
\* trigger.group(2).lower().split(" ")
LowerAll(tokens) == [i \in 1..Len(tokens) |-> Lower(tokens[i])]

\* trigger.group(2).lower().replace(" ", ", ")
RECURSIVE JoinComma(_)
JoinComma(tokens) ==
    IF Len(tokens) <= 1 THEN tokens
    ELSE <<Head(tokens), ", ">> \o JoinComma(Tail(tokens))

\* A faulty variant of line 347: the check is_chair makes, so that a chair
\* passes as well.
MaySetPuxamChairs(nick, rec) ==
    \/ rec.has["head"] = "val" /\ Lower(nick) = rec.head
    \/ rec.has["puxam"] = "val" /\ Lower(nick) \in Range(rec.puxam)

\* Line 347: who may set the chairs.
MaySetPuxam(nick, rec) == rec.has["head"] = "val" /\ Lower(nick) = rec.head

puxam(sender, nick, arg, fail) ==
    LET running == Truthy(is_meeting_running(meetings_dict, sender))
        md0 == ReadKey(meetings_dict, sender, "running")
        allowed == MaySetPuxam(nick, md0[sender])
        md1 == [md0 EXCEPT ![sender].has["puxam"] = "val",
                           ![sender].puxam = LowerAll(arg)]
        rec == md1[sender]
        readable == JoinComma(LowerAll(arg))
        plain_ok == CanOpen(dirs, meeting_log_path, rec, sender,
                            fail = "log_plain")
        fs1 == IF plain_ok
               THEN log_plain(files, meeting_log_path, rec, sender,
                              <<"Puxadoras: ">> \o readable)
               ELSE files
        html_ok == plain_ok /\ CanOpen(dirs, meeting_log_path, rec, sender,
                                       fail = "log_html")
        fs2 == IF html_ok
               THEN log_html_listitem(fs1, meeting_log_path, rec, sender,
                                      <<"<span>Puxadoras:</span> ">> \o readable)
               ELSE fs1
    IN
    /\ Fault(fail # "none",
             running /\ arg # <<>> /\ allowed
             /\ (fail = "log_plain" \/ (fail = "log_html" /\ plain_ok)))
    /\ IF ~running \/ arg = <<>> \/ ~allowed
       THEN /\ meetings_dict' = md0
            /\ said' = << Say(IF ~running THEN NoMeeting
                              ELSE IF arg = <<>>
                              THEN "Quem vai puxar? Tente puxam Fulana Beltrana_18 C1cl4n4"
                              ELSE "Somente a Porta-estandarte pode consagrar Puxadoras",
                              <<>>) >>
            /\ raised' = "none"
            /\ UNCHANGED files
       ELSE /\ raised' = IF html_ok THEN "none" ELSE "IOError"
            /\ said' = IF html_ok THEN << Say("Puxadoras:", readable) >> ELSE <<>>
            /\ meetings_dict' = md1
            /\ InBounds(fs2)
            /\ files' = fs2
    /\ UNCHANGED <<meeting_vraus, meeting_log_path, meeting_log_baseurl,
                   config, dirs, now, meetings,
                   scope>>

\* ------------------------------------------------------------------------ ow
\* trigger.group(3), the first token of the arguments, or "" for None.
Group3(arg) == IF arg = <<>> THEN "" ELSE Head(arg)

\* Line 493: the arguments are refused.
OwRefused(arg) == Group3(arg) = ""

\* Line 502: the record whose meeting decides, and that takes the note.
OwTarget(sender, arg) == sender

\* Line 501: the text stored with the note, trigger.group(2).
OwMessage(arg) == arg

take_ow(sender, nick, arg) ==
    LET target == OwTarget(sender, arg)
        running == Truthy(is_meeting_running(meetings_dict, target))
        md0 == ReadKey(meetings_dict, target, "running")
    IN
    /\ IF OwRefused(arg)
       THEN /\ said' = << Say("Uso: ow <comentario>", <<>>) >>
            /\ UNCHANGED meetings_dict
       ELSE IF ~running
       THEN /\ said' = << Say("Nao tem Blouco aqui.", <<>>) >>
            /\ meetings_dict' = md0
       ELSE /\ Len(md0[target].ows) < scope.ows
            /\ meetings_dict' =
                  [md0 EXCEPT ![target].ows = Append(@, <<nick, OwMessage(arg)>>)]
            /\ said' = << Say("Seu Ow foi gravado. Vai aparecer quando as Puxadoras me pedirem para mostrar os Ows.", <<>>),
                          SayTo("Ow gravado", <<>>, md0[target].head) >>
    /\ raised' = "none"
    /\ UNCHANGED <<meeting_vraus, meeting_log_path, meeting_log_baseurl,
                   config, dirs, files, now, faults, meetings,
                   scope>>

\* ----------------------------------------------------------------------- ows
BotNick == "bot"

\* The lines show_ows announces and logs: the header, then one per note.
OwLines(ows) ==
    << <<"Lista de Ows:">> >>
    \o [i \in 1..Len(ows) |-> <<"<", ows[i][1], "> ">> \o ows[i][2]]

\* The plain log after the first n of these lines were written.
RECURSIVE LogOwLines(_, _, _, _, _, _)
LogOwLines(fs, path, rec, ch, lines, n) ==
    IF n = 0 THEN fs
    ELSE log_plain(LogOwLines(fs, path, rec, ch, lines, n - 1),
                   path, rec, ch, <<"<", BotNick, "> ">> \o lines[n])

\* failat: the log_plain call that the file system refuses (0: none).
show_ows(sender, nick, failat) ==
    LET running == Truthy(is_meeting_running(meetings_dict, sender))
        chair == is_chair(nick, meetings_dict, sender)
        md0 == IF running THEN ChairRead(nick, meetings_dict, sender)
               ELSE ReadKey(meetings_dict, sender, "running")
        rec == md0[sender]
        ows == rec.ows
        lines == OwLines(ows)
        dir_ok == CanOpen(dirs, meeting_log_path, rec, sender, FALSE)
        written == IF ~dir_ok THEN 0
                   ELSE IF failat = 0 THEN Len(lines) ELSE failat - 1
        done == written = Len(lines)
    IN
    /\ Fault(failat # 0,
             running /\ chair /\ ows # <<>> /\ failat # 0 /\ dir_ok)
    /\ failat <= Len(ows) + 1
    /\ IF ~running
       THEN /\ meetings_dict' = md0
            /\ said' = <<>>
            /\ raised' = "none"
            /\ UNCHANGED files
       ELSE IF ~chair
       THEN /\ meetings_dict' = md0
            /\ said' = << Say(ChairsOnly, <<>>) >>
            /\ raised' = "none"
            /\ UNCHANGED files
       ELSE IF ows = <<>>
       THEN /\ meetings_dict' = md0
            /\ said' = << Say("Nao tem Ows", <<>>) >>
            /\ raised' = "none"
            /\ UNCHANGED files
       ELSE /\ raised' = IF done THEN "none" ELSE "IOError"
            /\ meetings_dict' = IF done THEN [md0 EXCEPT ![sender].ows = <<>>]
                                ELSE md0
            \* every line is said before it is logged
            /\ said' = [i \in 1..(IF done THEN written ELSE written + 1) |->
                           Say(IF i = 1 THEN "Lista de Ows:" ELSE "<ow>", lines[i])]
            /\ files' = LogOwLines(files, meeting_log_path, rec, sender,
                                   lines, written)
            /\ InBounds(files')
    /\ UNCHANGED <<meeting_vraus, meeting_log_path, meeting_log_baseurl,
                   config, dirs, now, meetings,
                   scope>>

\* ---------------------------------------------------------------------- Next
\* Who opens meetings, and who submits side notes.
Openers == {"Ana"}
Submitters == {"eve"}

\* The failures met by vrau; the other recording commands meet none.
VrauFails == {"none", "log_html"}
NoFails == {"none"}
\* The log_plain call of ows that fails (0: none).
OwsFails == 0..(MaxOws + 1)
NoOwsFails == {0}

\* The commands of one channel and of the private messages to the bot.
Commands(s) ==
    \/ \E n \in Openers, a \in Titles, f \in VemFails : vemblouco(s, n, a, f)
    \/ \E n \in Nicks, a \in Texts, f \in VrauFails : meetingvrau(s, n, a, f)
    \/ \E n \in Nicks, a \in Notes, f \in NoFails : meetingblz(s, n, a, f)
    \/ \E n \in Nicks, a \in Notes, f \in NoFails : meetingseliga(s, n, a, f)
    \/ \E n \in Nicks, a \in Links, f \in NoFails : \E t \in Found(a) :
          meetinglink(s, n, a, t, f)
    \/ \E n \in Nicks : listvraus(s, n)
    \/ \E n \in Nicks, a \in Notes, f \in NoFails : meetingmissao(s, n, a, f)
    \/ \E n \in Nicks, f \in CloseFails : vaiblouco(s, n, f)
    \/ \E n \in Nicks, a \in PuxamArgs, f \in NoFails : puxam(s, n, a, f)
    \/ \E n \in Submitters, a \in OwArgs : take_ow(s, n, a)
    \/ \E n \in Nicks, f \in OwsFails : show_ows(s, n, f)

\* A private message reaches its handler with the nick as the sender.
PrivateCommands ==
    \E n \in Submitters, a \in OwArgs : take_ow(n, n, a)

\* One channel, the configuration left alone.
Next ==
    \/ Tick
    \/ Commands("#a")
    \/ PrivateCommands

Spec == Init /\ [][Next]_vars

\* Two channels, and an operator who changes the configuration.
TwoChannelScope ==
    [meetings |-> MaxMeetings, faults |-> MaxFaults, items |-> 1,
     ows |-> MaxOws, time |-> 0]

InitTwoChannels ==
    /\ meetings_dict = [s \in Senders |-> EmptyDict]
    /\ meeting_vraus = <<>>
    /\ meeting_log_path = <<>>
    /\ meeting_log_baseurl = <<>>
    /\ config \in Configs
    /\ dirs = {}
    /\ files = <<>>
    /\ now = 0
    /\ said = <<>>
    /\ raised = "none"
    /\ faults = 0
    /\ meetings = 0
    /\ scope = TwoChannelScope

\* The people of the two-channel runs: Ana opens, bob is made a chair by
\* puxam, eve is neither.
Members == {"bob", "eve"}
PlainTitles == {<<>>}
OpenFails == {"none", "makedirs"}

\* The commands of one of two channels.
CommandsIn(s) ==
    \/ \E n \in Openers, a \in PlainTitles, f \in OpenFails :
          vemblouco(s, n, a, f)
    \/ \E n \in Members, a \in Notes, f \in NoFails : meetingvrau(s, n, a, f)
    \/ \E n \in Members, a \in Notes, f \in NoFails : meetingblz(s, n, a, f)
    \/ \E n \in Members, a \in Notes, f \in NoFails :
          meetingseliga(s, n, a, f)
    \/ \E n \in Members, a \in Links, f \in NoFails : \E t \in Found(a) :
          meetinglink(s, n, a, t, f)
    \/ \E n \in Members : listvraus(s, n)
    \/ \E n \in Members, a \in Notes, f \in NoFails :
          meetingmissao(s, n, a, f)
    \/ \E n \in Openers \cup Members, f \in NoFails : vaiblouco(s, n, f)
    \/ \E n \in Openers \cup Members, a \in PuxamArgs, f \in NoFails :
          puxam(s, n, a, f)
    \/ \E n \in Submitters, a \in OwArgs : take_ow(s, n, a)
    \/ \E n \in Members, f \in NoOwsFails : show_ows(s, n, f)

NextTwoChannels ==
    \/ \E c \in Configs : Configure(c)
    \/ \E s \in Channels : CommandsIn(s)

SpecTwoChannels == InitTwoChannels /\ [][NextTwoChannels]_vars

\* One meeting with several side notes, shown while the log file may fail.
MaxNotes == MaxOws + 1
OwsScope ==
    [meetings |-> 1, faults |-> MaxFaults, items |-> 2 * MaxNotes + 2,
     ows |-> MaxNotes, time |-> 0]

InitOws ==
    /\ meetings_dict = [s \in Senders |-> EmptyDict]
    /\ meeting_vraus = <<>>
    /\ meeting_log_path = <<>>
    /\ meeting_log_baseurl = <<>>
    /\ config = [path |-> <<"w">>, baseurl |-> <<"u">>]
    /\ dirs = {}
    /\ files = <<>>
    /\ now = 0
    /\ said = <<>>
    /\ raised = "none"
    /\ faults = 0
    /\ meetings = 0
    /\ scope = OwsScope

\* The log_plain call of ows that fails, with up to MaxNotes notes stored.
OwsDrainFails == 0..(MaxNotes + 1)

NextOws ==
    \/ \E n \in Openers, a \in PlainTitles, f \in NoFails :
          vemblouco("#a", n, a, f)
    \/ \E n \in Submitters, a \in OwArgs : take_ow("#a", n, a)
    \/ \E n \in Openers \cup Submitters, f \in OwsDrainFails :
          show_ows("#a", n, f)
    \/ \E n \in Openers, f \in NoFails : vaiblouco("#a", n, f)

SpecOws == InitOws /\ [][NextOws]_vars

\* Two meetings in one channel, one after the other, the first with chairs,
\* a vrau and a side note, and closed with or without its log fetched.
ReopenScope ==
    [meetings |-> MaxMeetings, faults |-> MaxFaults, items |-> MaxItems,
     ows |-> MaxOws, time |-> 0]

InitReopen ==
    /\ meetings_dict = [s \in Senders |-> EmptyDict]
    /\ meeting_vraus = <<>>
    /\ meeting_log_path = <<>>
    /\ meeting_log_baseurl = <<>>
    /\ config = [path |-> <<"w">>, baseurl |-> <<"u">>]
    /\ dirs = {}
    /\ files = <<>>
    /\ now = 0
    /\ said = <<>>
    /\ raised = "none"
    /\ faults = 0
    /\ meetings = 0
    /\ scope = ReopenScope

FetchFails == {"none", "requests"}

NextReopen ==
    \/ \E n \in Openers, a \in PlainTitles, f \in NoFails :
          vemblouco("#a", n, a, f)
    \/ \E n \in Openers, a \in PuxamArgs, f \in NoFails : puxam("#a", n, a, f)
    \/ \E n \in Members, a \in Notes, f \in NoFails :
          meetingvrau("#a", n, a, f)
    \/ \E n \in Members : listvraus("#a", n)
    \/ \E n \in Submitters, a \in OwArgs : take_ow("#a", n, a)
    \/ \E n \in Openers, f \in FetchFails : vaiblouco("#a", n, f)

SpecReopen == InitReopen /\ [][NextReopen]_vars

\* ================================================================ properties
\* The channel's record holds running = True.
Running(c) == meetings_dict[c].has["running"] = "val"

\* What a record says: which keys hold a value, and the values. The {} that
\* a read of a missing key leaves in a defaultdict record says nothing.
View(rec) == [rec EXCEPT !.has = [k \in Keys |-> rec.has[k] = "val"]]

Views(md) == [s \in Senders |-> View(md[s])]

\* The content of a log file, empty for a file that does not exist.
Content(fs, f) == IF f \in DOMAIN fs THEN fs[f] ELSE <<>>

\* The two log files of the meeting recorded under rec.
PlainLog(rec, c) == LogFile(meeting_log_path, rec, c, ".txt")
HtmlLog(rec, c) == LogFile(meeting_log_path, rec, c, ".html")

AlreadyRunning == << Say("Ja tem um Blouco ativo!", <<>>) >>
Opened(c) ==
    << Say("O Blouco e aqui!", <<>>),
       Say("Quem nao esta puxando pode participar me enviando uma DM com ow", <<c>>) >>

\* ------------------------------------------------------------------------ C1
\* C1: vemblouco in a channel whose meeting is running replies "already
\* running" and changes nothing: not the record (title, head, start, chairs,
\* side notes), not the list of vraus, not a log file.
C1_OpenWhileRunningRejected ==
    [][ \A c \in Channels : \A n \in Nicks, a \in Titles, f \in VemFails :
          (Running(c) /\ vemblouco(c, n, a, f))
          => /\ said' = AlreadyRunning
             /\ raised' = "none"
             /\ UNCHANGED <<meetings_dict, meeting_vraus, files, dirs,
                            meeting_log_path, meeting_log_baseurl>> ]_vars

\* A second open was refused in a meeting that has a title, a chair list, a
\* vrau and lines in its logs.
C1_Witness ==
    /\ said = AlreadyRunning
    /\ Running("#a")
    /\ meetings_dict["#a"].title = <<"r", "!">>
    /\ "#a" \in DOMAIN meeting_vraus
    /\ meeting_vraus["#a"] # <<>>
    /\ now > meetings_dict["#a"].start

\* ------------------------------------------------------------------------ C2
\* What is_meeting_running answers for the channel is true in Python.
IsRunning(c) == Truthy(is_meeting_running(meetings_dict, c))

\* The step is an open of the channel that returned normally.
OpenSucceeded(c) ==
    /\ \E n \in Nicks, a \in Titles, f \in VemFails : vemblouco(c, n, a, f)
    /\ ~IsRunning(c)
    /\ raised' = "none"

\* The step is an authorized close of the channel's running meeting.
CloseAttempted(c) ==
    /\ IsRunning(c)
    /\ \E n \in Nicks, f \in CloseFails :
          is_chair(n, meetings_dict, c) /\ vaiblouco(c, n, f)

\* C2: is_meeting_running is false for a channel until an open succeeds in
\* it, an open that failed at any step included, and it is false right
\* after a close completes. As no meeting runs at the start, the first
\* part says that the answer turns true only in a step that is a
\* successful open.
C2_RunningOnlyBySuccessfulOpen ==
    [][ \A c \in Channels :
          /\ (~IsRunning(c) /\ IsRunning(c)') => OpenSucceeded(c)
          /\ (CloseAttempted(c) /\ raised' = "none") => ~IsRunning(c)' ]_vars

\* ------------------------------------------------------------------------ C3
\* C3: an authorized vaiblouco on a running meeting always leaves the
\* channel with an empty record and not running, also when log_html_end or
\* the final log_plain raises.
C3_CloseAlwaysResets ==
    [][ \A c \in Channels :
          CloseAttempted(c)
          => /\ ~IsRunning(c)'
             /\ View(meetings_dict'[c]) = View(ResetRecord) ]_vars

\* ------------------------------------------------------------------------ C4
MakedirsMessage ==
    << Say("Blouco nao veio: Nao consegui criar o diretorio de log para este canal", <<>>) >>

\* C4: when os.makedirs fails in vemblouco, the failure is announced, the
\* channel's record is reset to an empty one, the error reaches the caller
\* and no meeting starts: is_meeting_running is false and no log line is
\* written. A later open of the channel is accepted: from every state in
\* which the channel is not running, the one this failure leaves included,
\* an open that meets no failure starts the meeting.
C4_MakedirsFailure ==
    [][ \A c \in Channels : \A n \in Nicks, a \in Titles :
          /\ ( /\ ~Running(c)
               /\ LogDir(WithSep(config.path), c) \notin dirs
               /\ vemblouco(c, n, a, "makedirs") )
             => /\ said' = MakedirsMessage
                /\ raised' = "OSError"
                /\ meetings_dict'[c] = ResetRecord
                /\ is_meeting_running(meetings_dict', c) # "True"
                /\ UNCHANGED <<files, dirs, meeting_vraus>>
          /\ (~Running(c) /\ vemblouco(c, n, a, "none"))
             => /\ said' = Opened(c)
                /\ raised' = "none"
                /\ Running(c)' ]_vars

\* A meeting was opened in a channel whose record a failed os.makedirs had
\* reset: the record is the defaultdict a reset leaves, and no meeting was
\* closed before (the plain logs hold one line, the opening one).
C4_Witness ==
    /\ Running("#a")
    /\ meetings_dict["#a"].kind = "defaultdict"
    /\ said = Opened("#a")
    /\ faults > 0
    /\ \A f \in DOMAIN files : f.ext = ".txt" => Len(files[f]) = 1

\* ------------------------------------------------------------------------ C5
\* The invoker's lower-cased nick is the head or one of the puxam.
Authorized(n, c) ==
    LET rec == meetings_dict[c] IN
    \/ Lower(n) = rec.head
    \/ rec.has["puxam"] = "val" /\ \E i \in 1..Len(rec.puxam) : rec.puxam[i] = Lower(n)

\* The privileged commands with an argument, by the refusal they word.
PrivilegedA(c, n) ==
    \/ \E a \in Texts \ {<<>>}, f \in VrauFails : meetingvrau(c, n, a, f)
    \/ \E a \in Notes, f \in NoFails : meetingblz(c, n, a, f)
    \/ \E a \in Notes, f \in NoFails : meetingseliga(c, n, a, f)
    \/ \E a \in Links, f \in NoFails : \E t \in Found(a) :
          meetinglink(c, n, a, t, f)

PrivilegedB(c, n) ==
    \/ \E a \in Notes, f \in NoFails : meetingmissao(c, n, a, f)
    \/ \E f \in CloseFails : vaiblouco(c, n, f)
    \/ \E f \in OwsFails : show_ows(c, n, f)

\* The step refused the command: the authorization error is the reply, and
\* no record, no list of vraus and no log file has changed.
Refused(error) ==
    /\ said' = << Say(error, <<>>) >>
    /\ raised' = "none"
    /\ Views(meetings_dict') = Views(meetings_dict)
    /\ UNCHANGED <<meeting_vraus, files>>

\* The step let the command through: the reply is not the authorization
\* error, and a handler that returned has written to the logs (ows answers
\* that there are no side notes when there are none).
TookEffect(error) ==
    /\ said' # << Say(error, <<>>) >>
    /\ raised' = "none"
       => files' # files \/ said' = << Say("Nao tem Ows", <<>>) >>

\* C5: in a running meeting each of missao, vaiblouco, vrau, blz, link,
\* seliga and ows, given its argument, takes effect exactly when the
\* invoker's lower-cased nick is the head or one of the puxam; for anyone
\* else it replies with the authorization error and changes no record, no
\* list of vraus and no log.
C5_ChairOrOwnerOnly ==
    [][ \A c \in Channels, n \in Nicks :
          Running(c)
          => /\ (IF Authorized(n, c) THEN TookEffect(ChairsOnlyA)
                 ELSE Refused(ChairsOnlyA))
                \/ ~PrivilegedA(c, n)
             /\ (IF Authorized(n, c) THEN TookEffect(ChairsOnly)
                 ELSE Refused(ChairsOnly))
                \/ ~PrivilegedB(c, n) ]_vars

\* A recording command was refused in a meeting that has puxam besides its
\* head.
C5_Witness ==
    /\ Running("#a")
    /\ meetings_dict["#a"].has["puxam"] = "val"
    /\ meetings_dict["#a"].puxam = <<"bob", "x">>
    /\ said = << Say(ChairsOnlyA, <<>>) >>

\* ------------------------------------------------------------------------ C6
OwnerOnly ==
    << Say("Somente a Porta-estandarte pode consagrar Puxadoras", <<>>) >>

\* The puxam of the channel's record, none when the key holds no list.
Chairs(md, c) == IF md[c].has["puxam"] = "val" THEN md[c].puxam ELSE <<>>

\* The tokens of the argument, lower-cased, and the list that renders them.
Lowered(a) == [i \in 1..Len(a) |-> Lower(a[i])]

RECURSIVE Listed(_)
Listed(tokens) ==
    IF tokens = <<>> THEN <<>>
    ELSE IF Len(tokens) = 1 THEN tokens
    ELSE <<tokens[1], ", ">> \o Listed(Tail(tokens))

\* C6: puxam from anyone but the head, a puxadora included, leaves the
\* puxam as they were, writes nothing and replies that only the head may
\* set them; from the head, with an argument, it makes the puxam the
\* lower-cased tokens of the argument and adds exactly one line to the
\* plain log and exactly one list item to the HTML log, both rendering the
\* comma-separated list.
C6_OnlyOwnerSetsChairs ==
    [][ \A c \in Channels, n \in Nicks, a \in PuxamArgs, f \in NoFails :
          (Running(c) /\ puxam(c, n, a, f))
          => IF Lower(n) # meetings_dict[c].head
             THEN /\ said' = OwnerOnly
                  /\ Chairs(meetings_dict', c) = Chairs(meetings_dict, c)
                  /\ files' = files
             ELSE raised' = "none"
                  => LET rec == meetings_dict'[c]
                         txt == PlainLog(rec, c)
                         html == HtmlLog(rec, c)
                     IN
                     /\ Chairs(meetings_dict', c) = Lowered(a)
                     /\ DOMAIN files' = DOMAIN files \cup {txt, html}
                     /\ \A g \in DOMAIN files \ {txt, html} : files'[g] = files[g]
                     /\ files'[txt] =
                           Append(Content(files, txt),
                                  [item |-> <<"Puxadoras: ">> \o Listed(Lowered(a))])
                     /\ files'[html] =
                           Append(Content(files, html),
                                  Html("<li>", <<"<span>Puxadoras:</span> ">>
                                                  \o Listed(Lowered(a))))
                     /\ said' = << Say("Puxadoras:", Listed(Lowered(a))) >> ]_vars

\* The head named the puxam, and a later puxam, from the puxadora bob or
\* from an outsider, was refused.
C6_Witness ==
    /\ Running("#a")
    /\ meetings_dict["#a"].has["puxam"] = "val"
    /\ meetings_dict["#a"].puxam = <<"bob", "x">>
    /\ said = OwnerOnly

\* ------------------------------------------------------------------------ C7
\* The step is a vrau of the channel that passed its checks and returned.
VrauSucceeded(c, n, a) ==
    /\ \E f \in VrauFails : meetingvrau(c, n, a, f)
    /\ Gate(meetings_dict, c, n, a) = "ok"
    /\ raised' = "none"

\* C7: while a meeting runs, the channel's list of vraus is the texts of the
\* successful vrau calls since the open, in call order: the open leaves it
\* empty, a successful vrau appends its text, a vrau that is refused or
\* fails appends nothing; listvraus, from anyone, says one line per entry
\* in that order and leaves the list alone.
C7_ListOfVraus ==
    [][ \A c \in Channels :
          /\ OpenSucceeded(c)
             => c \in DOMAIN meeting_vraus' /\ meeting_vraus'[c] = <<>>
          /\ IsRunning(c)
             => \A n \in Nicks :
                  /\ \A a \in Texts :
                        (\E f \in VrauFails : meetingvrau(c, n, a, f))
                        => IF VrauSucceeded(c, n, a)
                           THEN /\ c \in DOMAIN meeting_vraus
                                /\ meeting_vraus' =
                                      [meeting_vraus EXCEPT ![c] = Append(@, a)]
                           ELSE meeting_vraus' = meeting_vraus
                  /\ listvraus(c, n)
                     => /\ raised' = "none"
                        /\ c \in DOMAIN meeting_vraus
                        /\ said' = [i \in 1..Len(meeting_vraus[c]) |->
                                       Say("vrau:", meeting_vraus[c][i])]
                        /\ meeting_vraus' = meeting_vraus ]_vars

\* ------------------------------------------------------------------------ C8
\* C8: a close discards the channel's list of vraus with its record: once a
\* vaiblouco has reset the record, the channel has no list, also when the
\* fetch of the log that follows the reset fails.
C8_CloseDiscardsList ==
    [][ \A c \in Channels :
          (CloseAttempted(c) /\ meetings_dict'[c] = ResetRecord)
          => c \notin DOMAIN meeting_vraus' ]_vars

\* ------------------------------------------------------------------------ C9
\* The side notes of a record, none when the key holds no list.
SideNotes(md, c) == IF md[c].has["ows"] = "val" THEN md[c].ows ELSE <<>>

\* C9: ow with a target channel and a comment, sent from anywhere while a
\* meeting runs in the channel it names, appends (submitter, comment) to the
\* side notes of the named channel: the named channel decides whether a
\* meeting is active and takes the note, not the record of the place the
\* command was sent from.
C9_NoteGoesToNamedChannel ==
    [][ \A s \in Senders, n \in Nicks, a \in OwArgs :
          ( /\ Len(a) >= 2
            /\ a[1] \in Channels
            /\ IsRunning(a[1])
            /\ take_ow(s, n, a) )
          => SideNotes(meetings_dict', a[1])
               = Append(SideNotes(meetings_dict, a[1]), <<n, Tail(a)>>) ]_vars

\* ----------------------------------------------------------------------- C10
UsageOfOw == << Say("Uso: ow <comentario>", <<>>) >>

\* C10: ow needs two tokens after the command, the target channel and the
\* comment: with none or one it replies with the usage hint and stores no
\* side note.
C10_TwoTokensNeeded ==
    [][ \A s \in Senders, n \in Nicks, a \in OwArgs :
          (Len(a) < 2 /\ take_ow(s, n, a))
          => /\ said' = UsageOfOw
             /\ \A c \in Senders :
                   SideNotes(meetings_dict', c) = SideNotes(meetings_dict, c) ]_vars

\* ----------------------------------------------------------------------- C11
NoMeetingForOw == << Say("Nao tem Blouco aqui.", <<>>) >>

\* C11: ow addressed to a channel with no active meeting stores no side note
\* in the record of any channel, makes no meeting running, and replies that
\* no meeting is active there.
C11_NoNoteWithoutMeeting ==
    [][ \A s \in Senders, n \in Nicks, a \in OwArgs :
          ( /\ Len(a) >= 2
            /\ a[1] \in Channels
            /\ ~IsRunning(a[1])
            /\ take_ow(s, n, a) )
          => /\ said' = NoMeetingForOw
             /\ \A c \in Senders :
                   SideNotes(meetings_dict', c) = SideNotes(meetings_dict, c)
             /\ \A c \in Channels : IsRunning(c)' = IsRunning(c) ]_vars

\* ----------------------------------------------------------------------- C12
\* The renderings of the notes of ows in the plain log: the lines after the
\* header, as log_plain stores them.
Rendered(ows) ==
    [i \in 1..(Len(ows) + 1) |->
        [item |-> <<"<", BotNick, "> ">> \o OwLines(ows)[i]]]

\* The lines a step appended to the plain log of the meeting of c.
Appended(c) ==
    LET f == PlainLog(meetings_dict[c], c)
        old == Content(files, f)
        new == Content(files', f)
    IN IF Len(new) >= Len(old) /\ SubSeq(new, 1, Len(old)) = old
       THEN SubSeq(new, Len(old) + 1, Len(new))
       ELSE << [item |-> <<"?">>] >>

NoOws == << Say("Nao tem Ows", <<>>) >>

\* C12: ows drains what it reads. An authorized ows with notes stored that
\* returns announces and logs the header and every note once, in the order
\* of submission, and leaves no side note, so that the next ows says there
\* are none; an authorized ows with no note stored says so and writes
\* nothing; and a note that an ows has rendered in the plain log is stored no
\* longer, so that no later ows of the meeting renders it again.
C12_OwsDrainOnRead ==
    [][ \A c \in Channels, n \in Nicks, f \in OwsDrainFails :
          ( /\ Running(c)
            /\ Authorized(n, c)
            /\ show_ows(c, n, f) )
          => LET ows == SideNotes(meetings_dict, c)
                 k == Len(Appended(c)) - 1
             IN /\ (ows = <<>>) =>
                      /\ said' = NoOws
                      /\ files' = files
                /\ (ows # <<>> /\ raised' = "none") =>
                      /\ Appended(c) = Rendered(ows)
                      /\ Len(said') = Len(ows) + 1
                      /\ \A i \in 1..Len(said') : said'[i].arg = OwLines(ows)[i]
                      /\ SideNotes(meetings_dict', c) = <<>>
                /\ (ows # <<>> /\ k >= 1) =>
                      /\ Appended(c) = SubSeq(Rendered(ows), 1, k + 1)
                      /\ SideNotes(meetings_dict', c)
                            = SubSeq(ows, k + 1, Len(ows)) ]_vars

\* ----------------------------------------------------------------------- C13
\* C13: a change of the configuration while a meeting runs does not reach
\* the loggers of that meeting. The loggers write under meeting_log_path and
\* link under meeting_log_baseurl, so every log write of the meeting of a
\* channel uses the values of its opening exactly when no step changes the
\* two while the meeting stays running, whatever happens in between: changes
\* of the configuration, commands of another channel, an open of another
\* channel that succeeds or fails.
C13_LoggerPathsKept ==
    [][ \A a \in Channels :
          (Running(a) /\ Running(a)')
          => UNCHANGED <<meeting_log_path, meeting_log_baseurl>> ]_vars

\* ----------------------------------------------------------------------- C14
\* C14: a successful open (vemblouco in a channel without a running meeting,
\* returning normally) leaves the channel running, with the lower-cased nick
\* of the invoker as head, the argument as title or the untitled sentinel
\* when there is none, no side notes, an empty list of vraus and no chairs;
\* it appends one line, the opening one, to the plain log of the meeting and
\* the two header entries to its HTML log, and writes to no other file.
\* (Every open that passes the running check, and no other step, raises the
\* count of meetings.)
C14_SuccessfulOpen ==
    [][ \A c \in Channels, n \in Openers, a \in Titles, f \in VemFails :
          ( /\ ~Running(c)
            /\ raised' = "none"
            /\ meetings' # meetings
            /\ vemblouco(c, n, a, f) )
          => LET rec == meetings_dict'[c]
                 txt == LogFile(meeting_log_path', rec, c, ".txt")
                 htm == LogFile(meeting_log_path', rec, c, ".html")
             IN /\ IsRunning(c)'
                /\ rec.has["head"] = "val" /\ rec.head = Lower(n)
                /\ rec.has["title"] = "val"
                /\ rec.title = IF a = <<>> THEN UNTITLED_MEETING ELSE a
                /\ rec.has["start"] = "val" /\ rec.start = now
                /\ rec.has["ows"] = "val" /\ rec.ows = <<>>
                /\ rec.has["puxam"] # "val"
                /\ \A m \in Nicks : Lower(m) # Lower(n) => ~is_chair(m, meetings_dict', c)
                /\ c \in DOMAIN meeting_vraus' /\ meeting_vraus'[c] = <<>>
                /\ Content(files', txt)
                      = Append(Content(files, txt), [item |-> <<OpenLine, Lower(n)>>])
                /\ Content(files', htm)
                      = Content(files, htm)
                        \o << Html("<title><h1>",
                                   rec.title \o <<" at ", c, ", ", ToString(now)>>),
                              Html("<h4>Meeting started by</h4><ul>", <<Lower(n)>>) >>
                /\ \A g \in DOMAIN files' \ {txt, htm} :
                      g \in DOMAIN files /\ files'[g] = files[g] ]_vars

\* A meeting with a title and one without were opened; the second open came
\* after the first meeting was closed.
C14_Witness ==
    /\ said = Opened("#a")
    /\ Running("#a")
    /\ meetings_dict["#a"].head = "ana"
    /\ meetings_dict["#a"].title = UNTITLED_MEETING
    /\ meetings_dict["#a"].kind = "defaultdict"
    /\ \E g \in DOMAIN files : g.name # figure_logfile_name(meetings_dict["#a"])

\* ----------------------------------------------------------------------- C15
\* The last line of a plain log is the closing one.
ClosedLog(lines) == lines # <<>> /\ lines[Len(lines)].item[1] = CloseLine

\* C15: the lines of the plain log of a meeting stand in the order of the
\* commands that wrote them. Every step leaves the lines a plain log held
\* where they were and adds its own after them; the log of a meeting begins
\* with the line of its opening, so that the file an open that succeeded
\* wrote to holds that one line; and the closing line stays the last one: no
\* step adds to a plain log that ends with it.
C15_PlainLogInCommandOrder ==
    [][ /\ \A f \in DOMAIN files :
             f.ext = ".txt"
             => /\ f \in DOMAIN files'
                /\ Len(files'[f]) >= Len(files[f])
                /\ SubSeq(files'[f], 1, Len(files[f])) = files[f]
                /\ ClosedLog(files[f]) => files'[f] = files[f]
        /\ \A c \in Channels :
             (~Running(c) /\ Running(c)' /\ raised' = "none")
             => Content(files', LogFile(meeting_log_path', meetings_dict'[c], c, ".txt"))
                  = << [item |-> <<OpenLine, meetings_dict'[c].head>>] >> ]_vars

\* ----------------------------------------------------------------------- C16
\* Entry i of an HTML log is a list item, or one half of the pair a change of
\* topic writes (the list closed and the heading opened, the heading closed
\* and the list opened again).
InList(h, i) ==
    \/ h[i].tag = "<li>"
    \/ h[i].tag = "</ul><h3>" /\ i < Len(h) /\ h[i + 1].tag = "</h3><ul>"
    \/ h[i].tag = "</h3><ul>" /\ i > 3 /\ h[i - 1].tag = "</ul><h3>"

\* The HTML log of a meeting that goes on: the head with the title, the
\* opener and the list opened, then items and topics; one list is open.
OpenDocument(h) ==
    /\ Len(h) >= 2
    /\ h[1].tag = "<title><h1>"
    /\ h[2].tag = "<h4>Meeting started by</h4><ul>"
    /\ \A i \in 3..Len(h) : InList(h, i)

\* The HTML log of a meeting that was closed: the same, then the list
\* closed with the end time, the link to the plain log, the end of the
\* document; no list is open.
ClosedDocument(h) ==
    /\ Len(h) >= 5
    /\ OpenDocument(SubSeq(h, 1, Len(h) - 3))
    /\ h[Len(h) - 2].tag = "</ul><h4>Meeting ended at</h4>"
    /\ h[Len(h) - 1].tag = "<a>Full log</a>"
    /\ h[Len(h)].tag = "</body></html>"

\* The file is the HTML log of a meeting that is running.
LogOfRunning(f) ==
    \E c \in Channels : Running(c) /\ f = HtmlLog(meetings_dict[c], c)

\* C16: the HTML log of a meeting is the head and the h1 with the title, the
\* h4 with the opener and one list opened, then in the order of the commands
\* one li for an item and one closing/h3/reopening for a topic, then, once
\* the meeting is closed, the list closed, the h4 with the end time and the
\* link to the plain log. So at every moment the HTML log of a running
\* meeting has exactly one list open, and every other HTML log has none.
C16_HtmlLogStructure ==
    /\ \A c \in Channels :
          Running(c) => OpenDocument(Content(files, HtmlLog(meetings_dict[c], c)))
    /\ \A f \in DOMAIN files :
          (f.ext = ".html" /\ ~LogOfRunning(f)) => ClosedDocument(files[f])

\* ----------------------------------------------------------------------- C17
\* The URL link logs and replies with: "http://" put before an argument that
\* does not start with it.
Prefixed(a) == IF a[1] = "http://" THEN a ELSE <<"http://">> \o a

\* The step wrote the link with this title, and nothing else: one line
\* "LINK: <url> [<title>]" appended to the plain log of the meeting of c, one
\* anchor item to its HTML log, the URL in the reply, no exception.
LinkRecorded(c, a, title) ==
    LET rec == meetings_dict[c]
        txt == PlainLog(rec, c)
        htm == HtmlLog(rec, c)
    IN /\ raised' = "none"
       /\ said' = << Say("LINK", Prefixed(a)) >>
       /\ Content(files', txt)
            = Append(Content(files, txt),
                     [item |-> <<"LINK: ">> \o Prefixed(a) \o <<" [", title, "]">>])
       /\ Content(files', htm)
            = Append(Content(files, htm),
                     Html("<li>", <<"<a href=">> \o Prefixed(a)
                                    \o <<">", title, "</a>">>))
       /\ \A g \in DOMAIN files' \ {txt, htm} :
             g \in DOMAIN files /\ files'[g] = files[g]

\* C17: link by the head or one of the puxam of a running meeting never
\* fails because of the title: when find_title raises, the title is the
\* empty string, and the command still writes one plain line
\* "LINK: <url> []" and one HTML anchor item and replies with the URL; when
\* it returns, the title is what it returned. An argument without the http
\* prefix is logged and replied with "http://" before it.
C17_LinkTitleFallback ==
    [][ \A c \in Channels, n \in Nicks, a \in Links, f \in NoFails :
          (Running(c) /\ Authorized(n, c))
          => \A t \in Found(a) :
                \/ LinkRecorded(c, a, IF t = "FAIL" THEN "" ELSE t)
                \/ ~meetinglink(c, n, a, t, f) ]_vars

\* A link without the prefix, whose title could not be fetched, was
\* recorded: the last line of the plain log has the prefixed URL and the
\* empty title.
C17_Witness ==
    /\ Running("#a")
    /\ said = << Say("LINK", <<"http://", "e.com">>) >>
    /\ LET lines == Content(files, PlainLog(meetings_dict["#a"], "#a"))
       IN /\ lines # <<>>
          /\ lines[Len(lines)].item = <<"LINK: ", "http://", "e.com", " [", "", "]">>

\* ----------------------------------------------------------------------- C18
\* C18: in every reachable state a channel whose meeting is running
\* (is_meeting_running answers true) has a list in meeting_vraus, so that
\* vrau and listvraus never meet a missing list, also after an open whose
\* log_plain or log_html_start failed once running was set.
C18_RunningHasList ==
    \A c \in Channels : IsRunning(c) => c \in DOMAIN meeting_vraus

\* ----------------------------------------------------------------------- C19
\* Everyone a meeting of the model may have authorized.
Anyone == Nicks \cup {"Bob", "X"}

\* C19: nothing of a closed meeting carries over to the next meeting of the
\* channel. An open that succeeds on the record a close left makes the list
\* of vraus empty and the side notes empty, and authorizes the new head and
\* nobody else, the puxam of the meeting before included; so it is also
\* when the fetch of the log failed in the close and the old list was not
\* deleted.
C19_NothingCarriesOver ==
    [][ \A c \in Channels, n \in Openers, a \in Titles, f \in VemFails :
          ( /\ meetings_dict[c].kind = "defaultdict"
            /\ ~Running(c)
            /\ raised' = "none"
            /\ meetings' # meetings
            /\ vemblouco(c, n, a, f) )
          => /\ c \in DOMAIN meeting_vraus' /\ meeting_vraus'[c] = <<>>
             /\ SideNotes(meetings_dict', c) = <<>>
             /\ \A m \in Anyone :
                   is_chair(m, meetings_dict', c) <=> (Lower(m) = Lower(n)) ]_vars

\* The plain log has a line that begins so.
Logged(c, start) ==
    \E i \in 1..Len(Content(files, PlainLog(meetings_dict[c], c))) :
       Content(files, PlainLog(meetings_dict[c], c))[i].item[1] = start

\* A meeting was opened again after one that had puxam and a vrau and whose
\* close could not fetch the log, so that its list was still there.
C19_Witness ==
    /\ said = Opened("#a")
    /\ Running("#a")
    /\ meetings = 2
    /\ faults = 1
    /\ meeting_vraus["#a"] = <<>>
    /\ Logged("#a", "Puxadoras: ")
    /\ Logged("#a", "vrau: ")
    /\ Logged("#a", CloseLine)

\* ----------------------------------------------------------------------- C20
\* The step left what the channel holds as it was: its record (running,
\* title, start, head, puxam, side notes) and its list of vraus.
Untouched(b) ==
    /\ View(meetings_dict'[b]) = View(meetings_dict[b])
    /\ (b \in DOMAIN meeting_vraus') = (b \in DOMAIN meeting_vraus)
    /\ b \in DOMAIN meeting_vraus => meeting_vraus'[b] = meeting_vraus[b]

====
